---- MODULE Spec2Model ----
(***************************************************************************)
(* Model of server/models.py: the Author and Post record types and their   *)
(* field validators (sqlalchemy.orm.validates hooks), together with the    *)
(* authors table the name validator queries.                               *)
(*                                                                         *)
(* Python values are records [t, s]: t is the Python type name and s the   *)
(* character sequence of a str (or str(value) of an int).  A character is  *)
(* a one-character string; a non-ASCII character is written by its code    *)
(* point ("U+0663").                                                       *)
(***************************************************************************)
EXTENDS Integers, Sequences, FiniteSets, TLC

VARIABLES authors, table, posts, last

vars == <<authors, table, posts, last>>

(***************************************************************************)
(* Python values                                                           *)
(***************************************************************************)
None == [t |-> "NoneType", s |-> <<>>]

PyStr(s) == [t |-> "str", s |-> s]

PyInt(s) == [t |-> "int", s |-> s]

\* len(value)
PyLen(value) == Len(value.s)

\* Python truthiness: `not value` is true for None, "" and 0
Falsy(value) ==
    \/ value.t = "NoneType"
    \/ value.t = "str" /\ value.s = <<>>
    \/ value.t = "int" /\ value.s = <<"0">>

\* the outcome of a validator call: a returned value or a raised exception
Return(value) == [ok |-> TRUE, value |-> value, exc |-> "", msg |-> ""]

Raise(exc, msg) == [ok |-> FALSE, value |-> None, exc |-> exc, msg |-> msg]

Pending == [ok |-> FALSE, value |-> None, exc |-> "", msg |-> "pending"]

(***************************************************************************)
(* Characters: str.isspace, str.isdigit, str.strip, the `in` operator      *)
(***************************************************************************)
AsciiDigits == {"0", "1", "2", "3", "4", "5", "6", "7", "8", "9"}

\* str.isdigit is also true of the digits outside ASCII: ARABIC-INDIC DIGIT
\* THREE (U+0663), SUPERSCRIPT TWO (U+00B2), ...
UnicodeDigits == {"U+0663", "U+00B2"}

\* str.strip() removes the characters str.isspace is true of, NO-BREAK SPACE
\* (U+00A0) among them
Whitespace == {" ", "\t", "\n", "U+00A0"}

IsDigitChar(c) == c \in AsciiDigits \cup UnicodeDigits

\* value.isdigit(): non-empty and every character a digit
IsDigit(s) == Len(s) > 0 /\ \A i \in 1..Len(s) : IsDigitChar(s[i])

RECURSIVE LStrip(_)
LStrip(s) == IF s # <<>> /\ Head(s) \in Whitespace THEN LStrip(Tail(s)) ELSE s

RECURSIVE RStrip(_)
RStrip(s) ==
    IF s # <<>> /\ s[Len(s)] \in Whitespace
    THEN RStrip(SubSeq(s, 1, Len(s) - 1))
    ELSE s

\* str.strip()
Strip(s) == RStrip(LStrip(s))

\* phrase in value
Contains(s, phrase) ==
    \E i \in 0..(Len(s) - Len(phrase)) : SubSeq(s, i + 1, i + Len(phrase)) = phrase

(***************************************************************************)
(* Module constants                                                        *)
(***************************************************************************)
WontBelieve == <<"W", "o", "n", "'", "t", " ", "B", "e", "l", "i", "e", "v", "e">>

Secret == <<"S", "e", "c", "r", "e", "t">>

Top == <<"T", "o", "p">>

Guess == <<"G", "u", "e", "s", "s">>

CLICKBAIT_PHRASES == <<WontBelieve, Secret, Top, Guess>>

Fiction == <<"F", "i", "c", "t", "i", "o", "n">>

NonFiction == <<"N", "o", "n", "-">> \o Fiction

PhoneLen == 10

MinContentLen == 250

MaxSummaryLen == 250

(***************************************************************************)
(* Author.validate_phone_number                                            *)
(***************************************************************************)
validate_phone_number(value) ==
    IF value.t = "NoneType" THEN Return(value)
    ELSE IF value.t # "str" \/ PyLen(value) # PhoneLen \/ ~IsDigit(value.s)
    THEN Raise("ValueError", "Phone number must be exactly 10 digits.")
    ELSE Return(value)

(***************************************************************************)
(* Post validators                                                         *)
(***************************************************************************)
\* validate_title with lstrip() for strip(): trailing whitespace is kept
TitleMutant(value) ==
    IF Falsy(value) \/ Strip(value.s) = <<>>
    THEN Raise("ValueError", "Post must have a title.")
    ELSE IF ~\E k \in 1..Len(CLICKBAIT_PHRASES) : Contains(value.s, CLICKBAIT_PHRASES[k])
    THEN Raise("ValueError", "Title must be clickbait-y and contain one of: ...")
    ELSE Return(PyStr(LStrip(value.s)))

validate_title(value) ==
    IF Falsy(value) \/ Strip(value.s) = <<>>
    THEN Raise("ValueError", "Post must have a title.")
    ELSE IF value.t # "str"
    THEN Raise("TypeError", "argument is not iterable")
    ELSE IF ~\E k \in 1..Len(CLICKBAIT_PHRASES) : Contains(value.s, CLICKBAIT_PHRASES[k])
    THEN Raise("ValueError", "Title must be clickbait-y and contain one of: ...")
    ELSE Return(PyStr(Strip(value.s)))

\* validate_content with <= for <: a content of exactly 250 characters raises
ContentMutant(value) ==
    IF value.t = "NoneType" \/ PyLen(value) <= MinContentLen
    THEN Raise("ValueError", "Content must be at least 250 characters long.")
    ELSE Return(value)

validate_content(value) ==
    IF value.t = "int"
    THEN Raise("TypeError", "object has no len()")
    ELSE IF value.t = "NoneType" \/ PyLen(value) < MinContentLen
    THEN Raise("ValueError", "Content must be at least 250 characters long.")
    ELSE Return(value)

validate_summary(value) ==
    IF value.t = "int"
    THEN Raise("TypeError", "object has no len()")
    ELSE IF value.t # "NoneType" /\ PyLen(value) > MaxSummaryLen
    THEN Raise("ValueError", "Summary must be at most 250 characters.")
    ELSE Return(value)

\* validate_category comparing the stripped value
CategoryMutant(value) ==
    IF Strip(value.s) \notin {Fiction, NonFiction}
    THEN Raise("ValueError", "Category must be 'Fiction' or 'Non-Fiction'.")
    ELSE Return(value)

validate_category(value) ==
    IF value \notin {PyStr(Fiction), PyStr(NonFiction)}
    THEN Raise("ValueError", "Category must be 'Fiction' or 'Non-Fiction'.")
    ELSE Return(value)

(***************************************************************************)
(* Author.validate_name.  Author.query reads the authors table (ambient    *)
(* session state); self.id is 0 (None) until the record is inserted.       *)
(***************************************************************************)
\* Author.query.filter(Author.name == normalized).first(): the id of the
\* first matching row, 0 (None) when there is none
FirstByName(normalized) ==
    LET hits == {id \in DOMAIN table : table[id].name = PyStr(normalized)}
    IN IF hits = {} THEN 0 ELSE CHOOSE id \in hits : \A j \in hits : id <= j

\* validate_name querying the value as passed, not the stripped one
NameMutant(self, value) ==
    IF Falsy(value) \/ Strip(value.s) = <<>>
    THEN Raise("ValueError", "Author must have a name.")
    ELSE LET existing == FirstByName(value.s)
         IN IF existing # 0 /\ existing # self.id
            THEN Raise("ValueError", "Author name must be unique.")
            ELSE Return(PyStr(Strip(value.s)))

validate_name(self, value) ==
    IF Falsy(value) \/ Strip(value.s) = <<>>
    THEN Raise("ValueError", "Author must have a name.")
    ELSE LET normalized == Strip(value.s)
             existing == FirstByName(normalized)
         IN IF existing # 0 /\ existing # self.id
            THEN Raise("ValueError", "Author name must be unique.")
            ELSE Return(PyStr(normalized))

(***************************************************************************)
(* Records.  A validates hook runs inside the attribute set: the value it  *)
(* returns is stored, and when it raises the attribute keeps its value.    *)
(***************************************************************************)
\* a new Author / Post instance: every column attribute None, no id yet
NewAuthor == [id |-> 0, name |-> None, phone_number |-> None]

NewPost == [id |-> 0, title |-> None, content |-> None, category |-> None,
            summary |-> None]

AuthorValidate(self, key, value) ==
    IF key = "name" THEN validate_name(self, value)
    ELSE validate_phone_number(value)

PostValidate(key, value) ==
    CASE key = "title" -> validate_title(value)
      [] key = "content" -> validate_content(value)
      [] key = "summary" -> validate_summary(value)
      [] OTHER -> validate_category(value)

\* setattr storing the value as passed whatever the validator does
SetAuthorAttrMutant(self, key, value) ==
    [obj |-> [self EXCEPT ![key] = value], res |-> AuthorValidate(self, key, value)]

\* setattr(author, key, value)
SetAuthorAttr(self, key, value) ==
    LET res == AuthorValidate(self, key, value)
    IN [obj |-> IF res.ok THEN [self EXCEPT ![key] = res.value] ELSE self,
        res |-> res]

\* setattr(post, key, value)
SetPostAttr(self, key, value) ==
    LET res == PostValidate(key, value)
    IN [obj |-> IF res.ok THEN [self EXCEPT ![key] = res.value] ELSE self,
        res |-> res]

\* Author(**kwargs): the declarative constructor sets the attributes in the
\* order of kwargs; the first validator to raise ends the construction
RECURSIVE AuthorInit(_, _)
AuthorInit(self, kwargs) ==
    IF kwargs = <<>>
    THEN [obj |-> self, res |-> Return(None), field |-> ""]
    ELSE LET set == SetAuthorAttr(self, Head(kwargs).k, Head(kwargs).v)
         IN IF set.res.ok
            THEN AuthorInit(set.obj, Tail(kwargs))
            ELSE [obj |-> self, res |-> set.res, field |-> Head(kwargs).k]

\* Post(**kwargs)
RECURSIVE PostInit(_, _)
PostInit(self, kwargs) ==
    IF kwargs = <<>>
    THEN [obj |-> self, res |-> Return(None), field |-> ""]
    ELSE LET set == SetPostAttr(self, Head(kwargs).k, Head(kwargs).v)
         IN IF set.res.ok
            THEN PostInit(set.obj, Tail(kwargs))
            ELSE [obj |-> self, res |-> set.res, field |-> Head(kwargs).k]

(***************************************************************************)
(* The authors table: name is unique=True, nullable=False                  *)
(***************************************************************************)
Row(self) == [name |-> self.name, phone_number |-> self.phone_number]

NotNullViolation(row) == row.name = None

\* the name column without unique=True
UniqueViolationMutant(id, row) == FALSE

UniqueViolation(id, row) ==
    \E j \in DOMAIN table : j # id /\ table[j].name = row.name

\* the INSERT or UPDATE of the row with primary key id
WriteRow(id, row) ==
    IF NotNullViolation(row)
    THEN Raise("IntegrityError", "NOT NULL constraint failed: authors.name")
    ELSE IF UniqueViolation(id, row)
    THEN Raise("IntegrityError", "UNIQUE constraint failed: authors.name")
    ELSE Return(None)

Without(f, x) == [y \in DOMAIN f \ {x} |-> f[y]]

(***************************************************************************)
(* Bounds and the inputs drawn within them                                 *)
(***************************************************************************)
MaxAuthors == 2

MaxPosts == 1

\* a title candidate is a concatenation of at most MaxPieces pieces
MaxPieces == 3

\* a phone candidate is a run of "0" with at most MaxSubst characters replaced
MaxSubst == 1

\* a content or summary candidate has at most MaxPad leading blanks
MaxPad == 1

\* no record
Empty == [x \in {} |-> None]

AuthorRefs == 1..MaxAuthors

PostRefs == 1..MaxPosts

Fill(n, c) == [i \in 1..n |-> c]

Ann == <<"A", "n", "n">>

Bo == <<"B", "o">>

Padded(s) == <<" ", " ">> \o s \o <<" ", " ">>

NameArgs ==
    {None, PyStr(<<>>), PyStr(<<" ", "\t">>), PyStr(Ann), PyStr(Padded(Ann)),
     PyStr(Bo)}

GoodPhone == <<"0", "1", "2", "3", "4", "5", "6", "7", "8", "9">>

PhoneArgs == {None, PyStr(GoodPhone), PyStr(<<"5", "5", "5">>)}

Pair(key, value) == [k |-> key, v |-> value]

AuthorKwargs ==
    {<<>>}
    \cup {<<Pair("name", n)>> : n \in NameArgs}
    \cup {<<Pair("phone_number", p)>> : p \in PhoneArgs \ {None}}
    \cup {<<Pair("name", x[1]), Pair("phone_number", x[2])>> : x \in NameArgs \X (PhoneArgs \ {None})}
    \cup {<<Pair("phone_number", x[2]), Pair("name", x[1])>> : x \in NameArgs \X (PhoneArgs \ {None})}

PostFields == {"title", "content", "summary", "category"}

\* the values the record operations pass for each Post field
PostArgs(key) ==
    CASE key = "title" -> {PyStr(<<" ">> \o Top \o <<" ">>), PyStr(<<"x">>)}
      [] key = "content" -> {PyStr(Fill(MinContentLen, "a")),
                             PyStr(Fill(MinContentLen - 1, "a"))}
      [] key = "summary" -> {PyStr(Fill(MaxSummaryLen, "a")),
                             PyStr(Fill(MaxSummaryLen + 1, "a"))}
      [] OTHER -> {PyStr(Fiction), PyStr(<<"f">> \o Tail(Fiction))}

\* the orders in which a call can name a subset of the Post fields
KeyOrders ==
    {ks \in UNION {[1..n -> PostFields] : n \in 0..Cardinality(PostFields)} :
        \A i, j \in DOMAIN ks : i # j => ks[i] # ks[j]}

PostKwargs ==
    UNION {{[i \in DOMAIN ks |-> Pair(ks[i], g[ks[i]])] :
              g \in {h \in [PostFields -> UNION {PostArgs(f) : f \in PostFields}] :
                        \A f \in PostFields : h[f] \in PostArgs(f)}} :
           ks \in KeyOrders}

\* the handle a new record gets: the least free one (handles are only names)
IsNextRef(r, refs, records) ==
    /\ r \in refs \ DOMAIN records
    /\ \A q \in refs \ DOMAIN records : r <= q

\* kwargs.get(key): the value a call passes for key, Omitted when it names none
Omitted == [t |-> "omitted", s |-> <<>>]

RECURSIVE Get(_, _)
Get(kwargs, key) ==
    IF kwargs = <<>> THEN Omitted
    ELSE IF Head(kwargs).k = key THEN Head(kwargs).v
    ELSE Get(Tail(kwargs), key)

\* the last call and its outcome.  For an attribute set, field and arg are the
\* attribute and the value assigned; for a constructor, field is the attribute
\* whose validator raised ("" when none did) and arg the name the call passed
Call(op, ref, field, arg, res) ==
    [op |-> op, ref |-> ref, field |-> field, arg |-> arg, res |-> res]

(***************************************************************************)
(* Author operations.  A creator is a construction (the name check) and a  *)
(* later persist (the write); the steps of different records interleave    *)
(* freely, which covers concurrent creators.  The explored sessions hold    *)
(* records of one class at a time: Author and Post share no state.         *)
(***************************************************************************)
\* author = Author(**kwargs)
ConstructAuthor(r, kwargs) ==
    /\ IsNextRef(r, AuthorRefs, authors)
    /\ posts = Empty
    /\ \E out \in {AuthorInit(NewAuthor, kwargs)} :
          /\ authors' = IF out.res.ok THEN authors @@ (r :> out.obj) ELSE authors
          /\ last' = Call("Author", r, out.field, Get(kwargs, "name"), out.res)
    /\ UNCHANGED <<table, posts>>

\* author.name = value / author.phone_number = value.  The session flushes
\* the change of a persistent record before any later query (autoflush); the
\* model writes the row with the assignment
AssignAuthor(r, key, value) ==
    /\ r \in DOMAIN authors
    /\ \E set \in {SetAuthorAttr(authors[r], key, value)} :
       \E write \in {IF set.res.ok /\ authors[r].id # 0
                     THEN WriteRow(authors[r].id, Row(set.obj))
                     ELSE Return(None)} :
          /\ authors' = IF write.ok THEN [authors EXCEPT ![r] = set.obj] ELSE authors
          /\ table' = IF set.res.ok /\ write.ok /\ authors[r].id # 0
                      THEN [table EXCEPT ![authors[r].id] = Row(set.obj)]
                      ELSE table
          /\ last' = Call("setattr", r, key, value,
                          IF write.ok THEN set.res ELSE write)
    /\ UNCHANGED posts

AssignName(r, value) == AssignAuthor(r, "name", value)

AssignPhone(r, value) == AssignAuthor(r, "phone_number", value)

\* db.session.add(author); db.session.commit(): the INSERT of a new record.
\* The storage assigns a primary key no row has; the model takes the handle
\* number, which no other live record shares
Persist(r) ==
    /\ r \in DOMAIN authors
    /\ authors[r].id = 0
    /\ \E write \in {WriteRow(r, Row(authors[r]))} :
          /\ authors' = IF write.ok THEN [authors EXCEPT ![r].id = r] ELSE authors
          /\ table' = IF write.ok THEN table @@ (r :> Row(authors[r])) ELSE table
          /\ last' = Call("persist", r, "", authors[r].name, write)
    /\ UNCHANGED posts

\* db.session.delete(author); db.session.commit()
DeleteAuthor(r) ==
    /\ r \in DOMAIN authors
    /\ authors[r].id # 0
    /\ authors' = Without(authors, r)
    /\ table' = Without(table, authors[r].id)
    /\ last' = Call("delete", r, "", None, Return(None))
    /\ UNCHANGED posts

(***************************************************************************)
(* Post operations                                                         *)
(***************************************************************************)
\* post = Post(**kwargs)
ConstructPost(r, kwargs) ==
    /\ IsNextRef(r, PostRefs, posts)
    /\ authors = Empty
    /\ \E out \in {PostInit(NewPost, kwargs)} :
          /\ posts' = IF out.res.ok THEN posts @@ (r :> out.obj) ELSE posts
          /\ last' = Call("Post", r, out.field, Omitted, out.res)
    /\ UNCHANGED <<authors, table>>

\* post.<key> = value
AssignPost(r, key, value) ==
    /\ r \in DOMAIN posts
    /\ \E set \in {SetPostAttr(posts[r], key, value)} :
          /\ posts' = [posts EXCEPT ![r] = set.obj]
          /\ last' = Call("setattr", r, key, value, set.res)
    /\ UNCHANGED <<authors, table>>

\* the post is deleted
DeletePost(r) ==
    /\ r \in DOMAIN posts
    /\ posts' = Without(posts, r)
    /\ last' = Call("delete", r, "", None, Return(None))
    /\ UNCHANGED <<authors, table>>

(***************************************************************************)
(* Specifications                                                          *)
(***************************************************************************)
Init ==
    /\ authors = Empty
    /\ table = Empty
    /\ posts = Empty
    /\ last = Call("", 0, "", None, Return(None))

AuthorNext ==
    \/ \E r \in AuthorRefs, kwargs \in AuthorKwargs : ConstructAuthor(r, kwargs)
    \/ \E r \in AuthorRefs, value \in NameArgs : AssignName(r, value)
    \/ \E r \in AuthorRefs, value \in PhoneArgs : AssignPhone(r, value)
    \/ \E r \in AuthorRefs : Persist(r)
    \/ \E r \in AuthorRefs : DeleteAuthor(r)

PostNext ==
    \/ \E r \in PostRefs, kwargs \in PostKwargs : ConstructPost(r, kwargs)
    \/ \E r \in PostRefs, key \in PostFields :
          \E value \in PostArgs(key) \cup {None} : AssignPost(r, key, value)
    \/ \E r \in PostRefs : DeletePost(r)

Next == AuthorNext \/ PostNext

Spec == Init /\ [][Next]_vars

(***************************************************************************)
(* The validators applied to inputs drawn from bounded sets                *)
(***************************************************************************)
\* the concatenations of at most n of the pieces
RECURSIVE Concats(_, _)
Concats(pieces, n) ==
    IF n = 0 THEN {<<>>}
    ELSE LET shorter == Concats(pieces, n - 1)
         IN shorter \cup {x[1] \o x[2] : x \in shorter \X pieces}

\* s with at most n of its characters replaced by one of chars
RECURSIVE Subst(_, _, _)
Subst(s, chars, n) ==
    IF n = 0 THEN {s}
    ELSE LET fewer == Subst(s, chars, n - 1)
         IN fewer \cup {[x[1] EXCEPT ![x[2]] = x[3]] : x \in fewer \X (DOMAIN s) \X chars}

\* s behind and before at most n blanks
Pads(s, n) == {Fill(x[1], " ") \o s \o Fill(x[2], " ") : x \in (0..n) \X (0..n)}

NamePieces == {<<" ">>, <<"\t">>, <<"U+00A0">>, Ann, Bo}

NameCandidates == {None} \cup {PyStr(s) : s \in Concats(NamePieces, MaxPieces)}

PhoneCandidates ==
    {None, PyInt(GoodPhone), PyStr(<<>>), PyStr(GoodPhone)}
    \cup {PyStr(s) : s \in UNION {Subst(Fill(n, "0"), {"7", "a", " ", "-", "U+0663"}, MaxSubst) :
                                    n \in {PhoneLen - 1, PhoneLen, PhoneLen + 1}}}

TitlePieces ==
    {<<" ">>, <<"\t">>, Top, <<"t", "o", "p">>, <<"T", "o">>, <<"p">>, Secret, Guess,
     WontBelieve, <<"W", "o", "n", "'", "t">>, <<"B", "e", "l", "i", "e", "v", "e">>,
     <<"Y", "o", "u", " ">>, <<" ", "T", "h", "i", "s">>,
     <<"B", "o", "r", "i", "n", "g", " ", "U", "p", "d", "a", "t", "e">>}

TitleCandidates == {None} \cup {PyStr(s) : s \in Concats(TitlePieces, MaxPieces)}

LengthCandidates(limit) ==
    {None}
    \cup {PyStr(s) : s \in UNION {Pads(Fill(n, "a"), MaxPad) :
                                    n \in {0, 1, limit - 2, limit - 1, limit, limit + 1, 4 * limit}}}

ContentCandidates == LengthCandidates(MinContentLen)

SummaryCandidates == LengthCandidates(MaxSummaryLen)

CategoryCandidates ==
    {None}
    \cup {PyStr(s) : s \in UNION {Pads(c, MaxPad) :
                                    c \in {Fiction, NonFiction, <<"f">> \o Tail(Fiction),
                                           <<"N", "o", "n">> \o Fiction,
                                           <<"D", "r", "a", "m", "a">>, <<>>}}}

Candidates(key) ==
    CASE key = "name" -> NameCandidates
      [] key = "phone_number" -> PhoneCandidates
      [] key = "title" -> TitleCandidates
      [] key = "content" -> ContentCandidates
      [] key = "summary" -> SummaryCandidates
      [] OTHER -> CategoryCandidates

InitValidators ==
    /\ authors = Empty
    /\ table = Empty
    /\ posts = Empty
    /\ \E key \in {"name", "phone_number"} \cup PostFields :
          \E value \in Candidates(key) : last = Call("input", 0, key, value, Pending)

\* one call of the validator of last.field on last.arg
Validate(key, res) ==
    /\ last.op = "input"
    /\ last.field = key
    /\ last' = Call("validate", 0, key, last.arg, res)
    /\ UNCHANGED <<authors, table, posts>>

ValidateName == Validate("name", validate_name(NewAuthor, last.arg))

ValidatePhone == Validate("phone_number", validate_phone_number(last.arg))

ValidateTitle == Validate("title", validate_title(last.arg))

ValidateContent == Validate("content", validate_content(last.arg))

ValidateSummary == Validate("summary", validate_summary(last.arg))

ValidateCategory == Validate("category", validate_category(last.arg))

\* the returned value is assigned again
Revalidate ==
    /\ last.op = "validate"
    /\ last.res.ok
    /\ last' = Call("input", 0, last.field, last.res.value, Pending)
    /\ UNCHANGED <<authors, table, posts>>

NextValidators ==
    \/ ValidateName
    \/ ValidatePhone
    \/ ValidateTitle
    \/ ValidateContent
    \/ ValidateSummary
    \/ ValidateCategory
    \/ Revalidate

SpecValidators == InitValidators /\ [][NextValidators]_vars

(***************************************************************************)
(* Properties                                                              *)
(***************************************************************************)
UniqueMsg == "UNIQUE constraint failed: authors.name"

\* some row of the authors table has the name s
NameUsed(s) == \E id \in DOMAIN table : table[id].name = PyStr(s)

\* every character of s is whitespace (the empty string included)
Blank(s) == \A i \in DOMAIN s : s[i] \in Whitespace

\* t is s without its leading and trailing whitespace
IsTrimOf(t, s) ==
    \E i, j \in DOMAIN s :
        /\ i <= j
        /\ t = SubSeq(s, i, j)
        /\ s[i] \notin Whitespace
        /\ s[j] \notin Whitespace
        /\ \A k \in DOMAIN s : (k < i \/ k > j) => s[k] \in Whitespace

\* phrase occurs in s as a literal substring
Occurs(phrase, s) ==
    \E i \in DOMAIN s :
        /\ i + Len(phrase) - 1 <= Len(s)
        /\ \A k \in DOMAIN phrase : s[i + k - 1] = phrase[k]

Validated(key) == last.op = "validate" /\ last.field = key

\* C1: no two rows of the authors table have the same trimmed name, whatever
\* the order of constructions, name assignments, persists and deletions; an
\* INSERT the unique constraint rejects stores nothing (the record keeps no id
\* and has no row) while a row with its name exists.
C1_UniquePersistedNames ==
    /\ \A i, j \in DOMAIN table :
          i # j => Strip(table[i].name.s) # Strip(table[j].name.s)
    /\ (last.op = "persist" /\ last.res = Raise("IntegrityError", UniqueMsg)) =>
          /\ authors[last.ref].id = 0
          /\ last.ref \notin DOMAIN table
          /\ NameUsed(authors[last.ref].name.s)

\* C1 witness: two records passed the name check with the same name, one is
\* stored and the INSERT of the other was rejected by the unique constraint.
C1_SecondWriterRejected ==
    /\ last.op = "persist"
    /\ last.res = Raise("IntegrityError", UniqueMsg)
    /\ \E r \in DOMAIN authors :
          /\ r # last.ref
          /\ authors[r].id # 0
          /\ authors[r].name = authors[last.ref].name

\* the constructor call of C2: Author(name=v, ...) with v a string that is not
\* blank, whose phone number (if any) did not raise
C2_Case ==
    /\ last.op = "Author"
    /\ last.arg.t = "str"
    /\ ~Blank(last.arg.s)
    /\ last.field # "phone_number"

\* the error an absent name raises
InvalidNameError == validate_name(NewAuthor, None)

\* Author(name=s) with no row named strip(s) succeeds and the record holds
\* strip(s); an absent, empty or blank name raises the invalid-name error
C2_Creation ==
    /\ (C2_Case /\ ~NameUsed(Strip(last.arg.s))) =>
          /\ last.res.ok
          /\ last.ref \in DOMAIN authors
          /\ authors[last.ref].name = PyStr(Strip(last.arg.s))
          /\ IsTrimOf(authors[last.ref].name.s, last.arg.s)
    /\ (/\ last.op = "Author"
        /\ last.arg.t \in {"NoneType", "str"}
        /\ Blank(last.arg.s)
        /\ last.field # "phone_number") =>
          /\ last.res = Raise("ValueError", "Author must have a name.")
          /\ last.field = "name"
          /\ last.ref \notin DOMAIN authors

\* C2 as stated: creating an Author named s with s unused succeeds and stores
\* s; creating a second one named s, or s surrounded by whitespace, fails with
\* an error kind (DuplicateField) distinguishable from the kind raised for an
\* absent, empty or whitespace-only name (InvalidField).
C2_DuplicateKindDistinct ==
    /\ C2_Creation
    /\ (C2_Case /\ NameUsed(Strip(last.arg.s))) =>
          /\ ~last.res.ok
          /\ last.res.exc # InvalidNameError.exc

\* C2 amended: constructing an Author named s (or s surrounded by whitespace)
\* while no stored Author is named s succeeds and the record holds s; while a
\* stored Author is named s it fails with ValueError("Author name must be
\* unique."), the exception class also raised for an absent, empty or
\* whitespace-only name, from which only the message tells it apart.
C2_DuplicateRaisesValueError ==
    /\ C2_Creation
    /\ (C2_Case /\ NameUsed(Strip(last.arg.s))) =>
          /\ last.res = Raise("ValueError", "Author name must be unique.")
          /\ last.field = "name"
          /\ last.ref \notin DOMAIN authors
          /\ last.res.exc = InvalidNameError.exc
          /\ last.res.msg # InvalidNameError.msg

\* C2 witness: a second Author named "  Ann  " was refused while Ann is stored.
C2_PaddedDuplicateRefused ==
    /\ last.op = "Author"
    /\ last.arg = PyStr(Padded(Ann))
    /\ NameUsed(Ann)
    /\ ~last.res.ok
    /\ last.field = "name"

\* C3: the name check of validate_name rejects every duplicate before the
\* storage write, so the unique constraint is never the check that rejects a
\* record (also when two Authors with the same name are constructed before
\* either is persisted).
C3_UniqueConstraintNeverRejects ==
    ~(last.res.exc = "IntegrityError" /\ last.res.msg = UniqueMsg)

\* C4: validate_phone_number returns None unchanged; a present candidate is
\* returned unchanged if and only if it is a string of exactly 10 characters
\* each one of 0-9, and otherwise raises the validation error.
C4_PhoneTenAsciiDigits ==
    Validated("phone_number") =>
        IF last.arg = None THEN last.res = Return(None)
        ELSE IF /\ last.arg.t = "str"
                /\ Len(last.arg.s) = 10
                /\ \A i \in DOMAIN last.arg.s : last.arg.s[i] \in AsciiDigits
        THEN last.res = Return(last.arg)
        ELSE ~last.res.ok /\ last.res.exc = "ValueError"

\* C5: validate_title raises the validation error for an absent, empty or
\* whitespace-only candidate and for one in which none of "Won't Believe",
\* "Secret", "Top", "Guess" occurs as a case-sensitive literal substring; in
\* every other case it returns the candidate without its leading and trailing
\* whitespace.
C5_TitleContract ==
    Validated("title") =>
        IF \/ last.arg = None
           \/ Blank(last.arg.s)
           \/ ~\E phrase \in {WontBelieve, Secret, Top, Guess} : Occurs(phrase, last.arg.s)
        THEN ~last.res.ok /\ last.res.exc = "ValueError"
        ELSE last.res.ok /\ last.res.value.t = "str"
             /\ IsTrimOf(last.res.value.s, last.arg.s)

\* C5 witness: a title with a clickbait phrase and surrounding whitespace was
\* accepted and returned trimmed.
C5_PaddedTitleTrimmed ==
    /\ Validated("title")
    /\ last.res.ok
    /\ Head(last.arg.s) \in Whitespace
    /\ last.arg.s[Len(last.arg.s)] \in Whitespace
    /\ last.res.value # last.arg

\* C6: validate_content raises the validation error if and only if the
\* candidate is absent or shorter than 250 characters, and otherwise returns
\* the candidate unchanged (not trimmed).
C6_ContentContract ==
    Validated("content") =>
        IF last.arg = None \/ Len(last.arg.s) < 250
        THEN ~last.res.ok /\ last.res.exc = "ValueError"
        ELSE last.res = Return(last.arg)

\* C6 witness: a content of exactly 250 characters, the first a blank, was
\* accepted as it is.
C6_Content250Accepted ==
    /\ Validated("content")
    /\ Len(last.arg.s) = 250
    /\ Head(last.arg.s) = " "
    /\ last.res = Return(last.arg)

\* C7: validate_category returns the candidate unchanged if and only if it is
\* exactly "Fiction" or "Non-Fiction"; an absent candidate, another case,
\* surrounding whitespace or any other string raises the validation error.
C7_CategoryContract ==
    Validated("category") =>
        IF /\ last.arg.t = "str"
           /\ \/ last.arg.s = <<"F", "i", "c", "t", "i", "o", "n">>
              \/ last.arg.s = <<"N", "o", "n", "-", "F", "i", "c", "t", "i", "o", "n">>
        THEN last.res = Return(last.arg)
        ELSE ~last.res.ok /\ last.res.exc = "ValueError"

\* C7 witness: "Fiction" behind a blank was refused.
C7_PaddedCategoryRefused ==
    /\ Validated("category")
    /\ last.arg = PyStr(<<" ">> \o Fiction)
    /\ ~last.res.ok

\* C8: a value a validator returned is accepted again when it is assigned
\* again to the same field of the same record, and returned unchanged: every
\* field a record holds validates to itself, an Author's own current name
\* (persisted or not) included.
C8_StoredValuesRevalidate ==
    /\ \A r \in DOMAIN authors :
          /\ authors[r].name # None =>
                validate_name(authors[r], authors[r].name) = Return(authors[r].name)
          /\ validate_phone_number(authors[r].phone_number)
                = Return(authors[r].phone_number)
    /\ \A r \in DOMAIN posts : \A key \in PostFields :
          posts[r][key] # None => PostValidate(key, posts[r][key]) = Return(posts[r][key])

\* C9: a validator failure changes nothing: a rejected attribute set leaves
\* every field of every record (and the table) as it was, and a rejected
\* constructor call leaves no record.
C9_RejectionChangesNothing ==
    [][(last'.op \in {"Author", "Post", "setattr"} /\ ~last'.res.ok /\ last'.res.exc = "ValueError")
          => (authors' = authors /\ table' = table /\ posts' = posts)]_vars

\* C9 witness: the rename of a stored Author to the name of another stored
\* Author was rejected.
C9_RenameRejected ==
    /\ last.op = "setattr"
    /\ last.field = "name"
    /\ last.res = Raise("ValueError", "Author name must be unique.")
    /\ last.ref \in DOMAIN authors
    /\ authors[last.ref].id # 0
    /\ authors[last.ref].name # PyStr(Strip(last.arg.s))

\* C10: every Post record that exists has a content of at least 250 characters
\* and a category equal to "Fiction" or "Non-Fiction", also when the
\* constructor call named neither.
C10_RequiredPostFieldsValid ==
    \A r \in DOMAIN posts :
        /\ posts[r].content.t = "str"
        /\ Len(posts[r].content.s) >= 250
        /\ posts[r].category \in {PyStr(Fiction), PyStr(NonFiction)}

====
